---- MODULE Spec2Model ----
(***************************************************************************)
(* State-machine model of DeepSeekClient (src/api_client.py): the          *)
(* conversation history with its retention policy, and the chat call with  *)
(* its response parsing and ordered except chain.                          *)
(***************************************************************************)
EXTENDS Integers, Sequences, FiniteSets, TLC

VARIABLES
    conversation_history,  \* self.conversation_history: sequence of ChatMessage
    max_history,           \* self.max_history
    pc,                    \* "idle", or "awaiting" while chat blocks in requests.post
    request,               \* request_data['messages'] of the call in flight, else <<>>
    op,                    \* name of the method that acted last
    result,                \* value the last completed method returned
    output,                \* last line the last completed method printed
    raised,                \* TRUE iff the last method let an exception escape
    stream,                \* request_data['stream'] of the call in flight, else NONE
    posts,                 \* requests.post calls made by the last method called
    summary,               \* dict the last method returned, if it returned one
    threads,               \* callers running add_user_message / add_assistant_message
                           \* step by step: position and local variables of each
    serialized,            \* TRUE iff the callers take turns (one call at a time)
    repl,                  \* DeepSeekCLI: self.running, position of run's loop, last
                           \* line read, prompt_manager.system_prompt
    n_appended,            \* history variable: appends since the last clear_history
    recent                 \* history variable: the last Window appended messages

vars == <<conversation_history, max_history, pc, request, op, result, output,
          raised, stream, posts, summary, threads, serialized, repl,
          n_appended, recent>>

\* State of the callers of the client.
callers == <<threads, serialized, repl>>

(***************************************************************************)
(* Bounds of the model.                                                    *)
(***************************************************************************)
MaxHistory == 2
MaxAppends == 5

Limits == 0..MaxHistory
Window == MaxHistory

(***************************************************************************)
(* Text: a Python str is a sequence of one-character strings.  None is a   *)
(* value that is no text.                                                  *)
(***************************************************************************)
NONE == <<"None">>
PyTrue == <<"True">>
PyFalse == <<"False">>

TxtA == <<"a">>
TxtB == <<" ", "b", " ">>
TxtBlank == <<" ">>
Texts == {TxtA, TxtB, TxtBlank}

RECURSIVE LStrip(_)
LStrip(s) == IF s # <<>> /\ Head(s) = " " THEN LStrip(Tail(s)) ELSE s

RECURSIVE RStrip(_)
RStrip(s) ==
    IF s # <<>> /\ s[Len(s)] = " " THEN RStrip(SubSeq(s, 1, Len(s) - 1)) ELSE s

strip(s) == RStrip(LStrip(s))

(***************************************************************************)
(* ChatMessage and list helpers.                                           *)
(***************************************************************************)
ChatMessage(role, content) == [role |-> role, content |-> content]

to_dict(msg) == [role |-> msg.role, content |-> msg.content]

RECURSIVE SelectSeqBy(_, _, _)
SelectSeqBy(s, role, keep) ==
    IF s = <<>> THEN <<>>
    ELSE IF (Head(s).role = role) = keep
         THEN <<Head(s)>> \o SelectSeqBy(Tail(s), role, keep)
         ELSE SelectSeqBy(Tail(s), role, keep)

SystemMessages(h) == SelectSeqBy(h, "system", TRUE)
OtherMessages(h) == SelectSeqBy(h, "system", FALSE)

\* Python s[start:] for any integer start.
SliceFrom(s, start) ==
    LET i == IF start < 0
             THEN (IF Len(s) + start < 0 THEN 0 ELSE Len(s) + start)
             ELSE (IF start > Len(s) THEN Len(s) ELSE start)
    IN SubSeq(s, i + 1, Len(s))

trim_history_drop_newest(h, limit) ==
    LET system_messages == SystemMessages(h)
        other_messages == OtherMessages(h)
    IN IF Len(other_messages) > limit
       THEN system_messages \o SubSeq(other_messages, 1, limit)
       ELSE system_messages \o other_messages

trim_history_off_by_one(h, limit) ==
    LET system_messages == SystemMessages(h)
        other_messages == OtherMessages(h)
    IN IF Len(other_messages) > limit + 1
       THEN system_messages \o SliceFrom(other_messages, -(limit + 1))
       ELSE system_messages \o other_messages

trim_history_in_place(h, limit) ==
    IF Len(OtherMessages(h)) > limit
    THEN SliceFrom(h, -limit)
    ELSE h

trim_history(h, limit) ==
    LET system_messages == SystemMessages(h)
        other_messages == OtherMessages(h)
    IN IF Len(other_messages) > limit
       THEN system_messages \o SliceFrom(other_messages, -limit)
       ELSE system_messages \o other_messages

set_system_prompt_keep_old(h, system_prompt) ==
    IF strip(system_prompt) # <<>>
    THEN <<ChatMessage("system", strip(system_prompt))>> \o h
    ELSE h

set_system_prompt_drops_oldest(h, system_prompt) ==
    LET removed == IF OtherMessages(h) = <<>> THEN <<>> ELSE Tail(OtherMessages(h))
    IN IF strip(system_prompt) # <<>>
       THEN <<ChatMessage("system", strip(system_prompt))>> \o removed
       ELSE removed

set_system_prompt_no_strip(h, system_prompt) ==
    IF strip(system_prompt) # <<>>
    THEN <<ChatMessage("system", system_prompt)>> \o OtherMessages(h)
    ELSE OtherMessages(h)

set_system_prompt_blank_keeps(h, system_prompt) ==
    IF strip(system_prompt) # <<>>
    THEN <<ChatMessage("system", strip(system_prompt))>> \o OtherMessages(h)
    ELSE h

\* self.conversation_history after set_system_prompt(system_prompt).
set_system_prompt_history(h, system_prompt) ==
    LET removed == OtherMessages(h)
    IN IF strip(system_prompt) # <<>>
       THEN <<ChatMessage("system", strip(system_prompt))>> \o removed
       ELSE removed

add_message_history_stripped(h, role, content, limit) ==
    trim_history(Append(h, ChatMessage(role, strip(content))), limit)

\* self.conversation_history after add_user_message / add_assistant_message.
add_message_history(h, role, content, limit) ==
    trim_history(Append(h, ChatMessage(role, content)), limit)

clear_history_drop_all(h) == <<>>

\* self.conversation_history after clear_history.
clear_history_result(h) == SystemMessages(h)

(***************************************************************************)
(* History variables: how many messages were appended since the last       *)
(* clear, and the newest Window of them (no limit keeps more than that).   *)
(***************************************************************************)
Remember(log, msg) ==
    IF Len(log) < Window THEN Append(log, msg)
    ELSE Append(Tail(log), msg)

\* Room for one more append: the appends counted since the last clear and the
\* stored messages (which grow without limit when max_history is 0) are capped.
CanAppend ==
    /\ n_appended < MaxAppends
    /\ Len(OtherMessages(conversation_history)) <= MaxHistory

NoOutput == [kind |-> "none", code |-> 0, text |-> <<>>]
Printed(kind) == [kind |-> kind, code |-> 0, text |-> <<>>]

NoSummary ==
    [total_messages |-> 0, system_messages |-> 0, user_messages |-> 0,
     assistant_messages |-> 0, max_history |-> 0, given |-> FALSE]

\* Prompt texts given to set_system_prompt: the texts and the empty string.
Prompts == Texts \cup {<<>>}

Callers == {1, 2}

\* No caller is inside an append.
NoThreads ==
    [c \in Callers |->
        [pc |-> "off", message |-> ChatMessage("user", <<>>),
         system_messages |-> <<>>, other_messages |-> <<>>]]

\* The command loop is not running.
NoRepl == [running |-> FALSE, loop |-> "off", line |-> "", system_prompt |-> <<>>]

Init ==
    /\ conversation_history = <<>>
    /\ max_history \in Limits
    /\ pc = "idle"
    /\ request = <<>>
    /\ op = "init"
    /\ result = NONE
    /\ output = NoOutput
    /\ raised = FALSE
    /\ stream = NONE
    /\ posts = 0
    /\ summary = NoSummary
    /\ threads = NoThreads
    /\ serialized = TRUE
    /\ repl = NoRepl
    /\ n_appended = 0
    /\ recent = <<>>

set_system_prompt(system_prompt) ==
    /\ pc = "idle"
    /\ conversation_history' =
           set_system_prompt_history(conversation_history, system_prompt)
    /\ op' = "set_system_prompt"
    /\ UNCHANGED callers
    /\ stream' = NONE
    /\ posts' = 0
    /\ summary' = NoSummary
    /\ result' = NONE
    /\ output' = NoOutput
    /\ raised' = FALSE
    /\ UNCHANGED <<max_history, pc, request, n_appended, recent>>

add_user_message(content) ==
    /\ pc = "idle"
    /\ CanAppend
    /\ conversation_history' =
           add_message_history(conversation_history, "user", content, max_history)
    /\ n_appended' = n_appended + 1
    /\ recent' = Remember(recent, ChatMessage("user", content))
    /\ op' = "add_user_message"
    /\ UNCHANGED callers
    /\ stream' = NONE
    /\ posts' = 0
    /\ summary' = NoSummary
    /\ result' = NONE
    /\ output' = NoOutput
    /\ raised' = FALSE
    /\ UNCHANGED <<max_history, pc, request>>

add_assistant_message(content) ==
    /\ pc = "idle"
    /\ CanAppend
    /\ conversation_history' =
           add_message_history(conversation_history, "assistant", content, max_history)
    /\ n_appended' = n_appended + 1
    /\ recent' = Remember(recent, ChatMessage("assistant", content))
    /\ op' = "add_assistant_message"
    /\ UNCHANGED callers
    /\ stream' = NONE
    /\ posts' = 0
    /\ summary' = NoSummary
    /\ result' = NONE
    /\ output' = NoOutput
    /\ raised' = FALSE
    /\ UNCHANGED <<max_history, pc, request>>

clear_history ==
    /\ pc = "idle"
    /\ conversation_history' = clear_history_result(conversation_history)
    /\ n_appended' = 0
    /\ recent' = <<>>
    /\ op' = "clear_history"
    /\ UNCHANGED callers
    /\ stream' = NONE
    /\ posts' = 0
    /\ summary' = NoSummary
    /\ result' = NONE
    /\ output' = Printed("history_cleared")
    /\ raised' = FALSE
    /\ UNCHANGED <<max_history, pc, request>>

(***************************************************************************)
(* The remote side.  requests.post either raises a transport exception or  *)
(* returns a response with a status code and a body.  A body is described  *)
(* by the shape the code inspects: what response.json() yields, what the   *)
(* 'choices', 'usage' and 'error' members are.  json_error is the class    *)
(* response.json() raises on a body that is not JSON: requests >= 2.27     *)
(* raises requests.exceptions.JSONDecodeError, older releases let          *)
(* json.JSONDecodeError through.                                           *)
(***************************************************************************)
UnknownErrorText == <<"?">>
ErrorTextLimit == 200

StatusCodes == {200, 400, 401, 429, 500, 503}
TransportErrors == {"ReadTimeout", "ConnectTimeout", "ConnectionError", "TooManyRedirects"}
JsonErrorClasses == {"requests.JSONDecodeError", "json.JSONDecodeError"}
ReplyContents == {TxtB, NONE}

Body(json, choices, content, usage, error, message, text) ==
    [json |-> json, choices |-> choices, content |-> content, usage |-> usage,
     error |-> error, message |-> message, text |-> text]

NotJsonBody == Body("invalid", "absent", NONE, "absent", "absent", NONE, TxtA)
ListBody == Body("list", "absent", NONE, "absent", "absent", NONE, <<>>)
NumberBody == Body("number", "absent", NONE, "absent", "absent", NONE, <<>>)
ChoicesBody(choices, content, usage) ==
    Body("object", choices, content, usage, "absent", NONE, <<>>)
ErrorBody(error, message) ==
    Body("object", "absent", NONE, "absent", error, message, <<>>)

SuccessBodies ==
    {NotJsonBody, ListBody, NumberBody}
    \cup {ChoicesBody(c, NONE, "absent") :
              c \in {"absent", "empty", "no_message", "no_content"}}
    \cup {ChoicesBody("content", c, u) :
              c \in ReplyContents, u \in {"absent", "null", "object", "number"}}

ErrorBodies ==
    {NotJsonBody, ListBody,
     ErrorBody("absent", NONE), ErrorBody("string", NONE),
     ErrorBody("object", NONE), ErrorBody("object", TxtA)}

Response(exc, status_code, body, json_error) ==
    [exc |-> exc, status_code |-> status_code, body |-> body,
     json_error |-> json_error]

\* json_error matters only for a body that is not JSON.
HttpResponses(status_code, bodies) ==
    {Response("", status_code, b, "json.JSONDecodeError") : b \in bodies}
    \cup {Response("", status_code, NotJsonBody, j) : j \in JsonErrorClasses}

Responses ==
    {Response(e, 0, NotJsonBody, "json.JSONDecodeError") : e \in TransportErrors}
    \cup HttpResponses(200, SuccessBodies)
    \cup UNION {HttpResponses(s, ErrorBodies) : s \in StatusCodes \ {200}}

(***************************************************************************)
(* Exceptions: the classes an `except C` clause matches for each exception *)
(* the calls of chat can raise.                                            *)
(***************************************************************************)
Bases(exc) ==
    CASE exc = "ReadTimeout" -> {"Timeout", "RequestException", "Exception"}
      [] exc = "ConnectTimeout" ->
             {"ConnectionError", "Timeout", "RequestException", "Exception"}
      [] exc = "ConnectionError" -> {"ConnectionError", "RequestException", "Exception"}
      [] exc = "TooManyRedirects" -> {"RequestException", "Exception"}
      [] exc = "requests.JSONDecodeError" ->
             {"InvalidJSONError", "RequestException", "JSONDecodeError",
              "ValueError", "Exception"}
      [] exc = "json.JSONDecodeError" -> {"JSONDecodeError", "ValueError", "Exception"}
      [] OTHER -> {exc, "Exception"}

\* Index of the first except clause of `chain` that matches exc, 0 if none does.
RECURSIVE FirstMatch(_, _, _)
FirstMatch(chain, exc, i) ==
    IF i > Len(chain) THEN 0
    ELSE IF chain[i] \in Bases(exc) THEN i
    ELSE FirstMatch(chain, exc, i + 1)

Take(s, n) == SubSeq(s, 1, IF Len(s) < n THEN Len(s) ELSE n)

Outcome(history, added, exc, res, out) ==
    [history |-> history, added |-> added, exc |-> exc, result |-> res,
     output |-> out]

api_error_line_generic(code, error_message) ==
    [kind |-> "api_error", code |-> code, text |-> error_message]

\* The line _handle_api_error prints for a status code and an error message.
api_error_line(code, error_message) ==
    CASE code = 401 -> Printed("invalid_key")
      [] code = 429 -> Printed("rate_limited")
      [] code = 400 -> [kind |-> "bad_request", code |-> 0, text |-> error_message]
      [] code = 500 -> Printed("server_error")
      [] OTHER -> [kind |-> "api_error", code |-> code, text |-> error_message]

\* _handle_api_error: the line it prints, or the exception that escapes it.
handle_api_error(response) ==
    LET body == response.body
        code == response.status_code
        error_message ==
            IF body.error = "object" /\ body.message # NONE
            THEN body.message ELSE UnknownErrorText
    IN IF body.json = "invalid"
       THEN IF "JSONDecodeError" \in Bases(response.json_error)
            THEN [exc |-> "",
                  output |-> [kind |-> "http_error", code |-> code,
                              text |-> Take(body.text, ErrorTextLimit)]]
            ELSE [exc |-> response.json_error, output |-> NoOutput]
       ELSE IF body.json # "object" \/ body.error = "string"
       THEN [exc |-> "AttributeError", output |-> NoOutput]
       ELSE [exc |-> "", output |-> api_error_line(code, error_message)]

\* _print_response_info: "" when it prints, else the exception it raises.
print_response_info(usage) ==
    IF usage \in {"absent", "null"} THEN ""
    ELSE IF usage = "object" THEN ""
    ELSE "TypeError"

\* The try block of chat from the return of requests.post on.
chat_try_block(h, limit, response) ==
    LET body == response.body
    IN IF response.exc # ""
       THEN Outcome(h, <<>>, response.exc, NONE, Printed("thinking"))
       ELSE IF response.status_code = 200
       THEN IF body.json = "invalid"
            THEN Outcome(h, <<>>, response.json_error, NONE, Printed("thinking"))
            ELSE IF body.json = "number"
            THEN Outcome(h, <<>>, "TypeError", NONE, Printed("thinking"))
            ELSE IF body.json = "list" \/ body.choices \in {"absent", "empty"}
            THEN Outcome(h, <<>>, "", NONE, Printed("format_anomaly"))
            ELSE IF body.choices \in {"no_message", "no_content"}
            THEN Outcome(h, <<>>, "KeyError", NONE, Printed("thinking"))
            ELSE LET assistant_reply == body.content
                     added == <<ChatMessage("assistant", assistant_reply)>>
                     h2 == add_message_history(h, "assistant", assistant_reply, limit)
                     e == print_response_info(body.usage)
                 IN IF e # ""
                    THEN Outcome(h2, added, e, NONE, Printed("thinking"))
                    ELSE Outcome(h2, added, "", assistant_reply,
                                 Printed("response_info"))
       ELSE LET e == handle_api_error(response)
            IN Outcome(h, <<>>, e.exc, NONE, e.output)

chat_except_chain_no_catch_all ==
    <<"Timeout", "ConnectionError", "RequestException", "JSONDecodeError">>

chat_except_chain ==
    <<"Timeout", "ConnectionError", "RequestException", "JSONDecodeError",
      "Exception">>

HandlerResult_timeout_text(clause) ==
    IF clause = "Timeout" THEN <<>> ELSE NONE

\* Every except clause of chat returns None.
HandlerResult(clause) == NONE

HandlerOutput(clause) ==
    CASE clause = "Timeout" -> Printed("timeout")
      [] clause = "ConnectionError" -> Printed("connection_failed")
      [] clause = "RequestException" -> Printed("request_failed")
      [] clause = "JSONDecodeError" -> Printed("parse_failed")
      [] OTHER -> Printed("unknown_error")

HandlerPosts_retry_on_timeout(clause) ==
    IF clause = "Timeout" THEN 1 ELSE 0

\* Calls of requests.post an except clause of chat makes: none retries.
HandlerPosts(clause) == 0

\* chat from the return of requests.post on: try block, then the except chain.
\* posts counts the calls of requests.post made after the first one.
chat_outcome(h, limit, response) ==
    LET b == chat_try_block(h, limit, response)
        i == FirstMatch(chat_except_chain, b.exc, 1)
    IN IF b.exc = ""
       THEN [history |-> b.history, added |-> b.added, result |-> b.result,
             output |-> b.output, raised |-> FALSE, posts |-> 0]
       ELSE IF i = 0
       THEN [history |-> b.history, added |-> b.added, result |-> NONE,
             output |-> b.output, raised |-> TRUE, posts |-> 0]
       ELSE [history |-> b.history, added |-> b.added,
             result |-> HandlerResult(chat_except_chain[i]),
             output |-> HandlerOutput(chat_except_chain[i]), raised |-> FALSE,
             posts |-> HandlerPosts(chat_except_chain[i])]

MapToDict_without_system(h) ==
    [i \in 1..Len(OtherMessages(h)) |-> to_dict(OtherMessages(h)[i])]

RECURSIVE MapToDict(_)
MapToDict(h) == IF h = <<>> THEN <<>> ELSE <<to_dict(Head(h))>> \o MapToDict(Tail(h))

RECURSIVE RememberAll(_, _)
RememberAll(log, msgs) ==
    IF msgs = <<>> THEN log ELSE RememberAll(Remember(log, Head(msgs)), Tail(msgs))

\* The 'stream' entry of the request_data chat builds.
request_data_stream == PyFalse

chat_send_fail_fast(user_input) ==
    /\ pc = "idle"
    /\ CanAppend
    /\ IF strip(user_input) = <<>>
       THEN /\ output' = Printed("empty_input")
            /\ posts' = 0
            /\ stream' = NONE
            /\ UNCHANGED <<conversation_history, request, pc, n_appended, recent>>
       ELSE /\ conversation_history' =
                   add_message_history(conversation_history, "user", user_input,
                                       max_history)
            /\ request' = MapToDict(conversation_history')
            /\ pc' = "awaiting"
            /\ n_appended' = n_appended + 1
            /\ recent' = Remember(recent, ChatMessage("user", user_input))
            /\ output' = Printed("thinking")
            /\ stream' = request_data_stream
            /\ posts' = 1
    /\ op' = "chat"
    /\ UNCHANGED callers
    /\ result' = NONE
    /\ raised' = FALSE
    /\ summary' = NoSummary
    /\ UNCHANGED max_history

\* chat up to the point where it blocks in requests.post.
chat_send(user_input) ==
    /\ pc = "idle"
    /\ CanAppend
    /\ conversation_history' =
           add_message_history(conversation_history, "user", user_input, max_history)
    /\ request' = MapToDict(conversation_history')
    /\ pc' = "awaiting"
    /\ n_appended' = n_appended + 1
    /\ recent' = Remember(recent, ChatMessage("user", user_input))
    /\ op' = "chat"
    /\ UNCHANGED callers
    /\ result' = NONE
    /\ output' = Printed("thinking")
    /\ raised' = FALSE
    /\ stream' = request_data_stream
    /\ posts' = 1
    /\ summary' = NoSummary
    /\ UNCHANGED max_history

chat_receive_retry_on_timeout(response) ==
    /\ pc = "awaiting"
    /\ LET o == chat_outcome(conversation_history, max_history, response)
           again == "Timeout" \in Bases(response.exc)
       IN /\ conversation_history' = o.history
          /\ n_appended' = n_appended + Len(o.added)
          /\ recent' = RememberAll(recent, o.added)
          /\ result' = o.result
          /\ output' = o.output
          /\ raised' = o.raised
          /\ posts' = IF again THEN 2 ELSE posts
          /\ pc' = IF again THEN "awaiting" ELSE "idle"
          /\ request' = IF again THEN request ELSE <<>>
          /\ stream' = IF again THEN stream ELSE NONE
    /\ op' = "chat"
    /\ UNCHANGED callers
    /\ UNCHANGED <<max_history, summary>>

\* chat from the moment requests.post returns or raises until chat returns.
chat_receive(response) ==
    /\ pc = "awaiting"
    /\ LET o == chat_outcome(conversation_history, max_history, response)
       IN /\ conversation_history' = o.history
          /\ n_appended' = n_appended + Len(o.added)
          /\ recent' = RememberAll(recent, o.added)
          /\ result' = o.result
          /\ output' = o.output
          /\ raised' = o.raised
          /\ posts' = posts + o.posts
    /\ pc' = "idle"
    /\ request' = <<>>
    /\ stream' = NONE
    /\ op' = "chat"
    /\ UNCHANGED callers
    /\ UNCHANGED <<max_history, summary>>

(***************************************************************************)
(* get_history_summary.                                                    *)
(***************************************************************************)
RECURSIVE CountRole(_, _)
CountRole(h, role) ==
    IF h = <<>> THEN 0
    ELSE (IF Head(h).role = role THEN 1 ELSE 0) + CountRole(Tail(h), role)

history_summary_total_without_system(h, limit) ==
    [total_messages |-> Len(OtherMessages(h)),
     system_messages |-> CountRole(h, "system"),
     user_messages |-> CountRole(h, "user"),
     assistant_messages |-> CountRole(h, "assistant"),
     max_history |-> limit,
     given |-> TRUE]

history_summary(h, limit) ==
    [total_messages |-> Len(h),
     system_messages |-> CountRole(h, "system"),
     user_messages |-> CountRole(h, "user"),
     assistant_messages |-> CountRole(h, "assistant"),
     max_history |-> limit,
     given |-> TRUE]

get_history_summary ==
    /\ pc = "idle"
    /\ summary' = history_summary(conversation_history, max_history)
    /\ op' = "get_history_summary"
    /\ UNCHANGED callers
    /\ result' = NONE
    /\ output' = NoOutput
    /\ raised' = FALSE
    /\ stream' = NONE
    /\ posts' = 0
    /\ UNCHANGED <<conversation_history, max_history, pc, request, n_appended,
                   recent>>

(***************************************************************************)
(* test_connection: a probe request outside the stored history.            *)
(***************************************************************************)
Hello == <<"H", "e", "l", "l", "o">>

\* test_messages of test_connection; the stored history h is not read.
test_messages(h) == <<[role |-> "user", content |-> Hello]>>

ProbeResponses ==
    {r \in Responses :
         r.exc = "ReadTimeout" \/ (r.exc = "" /\ r.status_code \in {200, 401})}

test_connection_true_on_any_response(response) ==
    IF response.exc # ""
    THEN [result |-> PyFalse, output |-> Printed("test_failed"), raised |-> FALSE]
    ELSE [result |-> PyTrue, output |-> Printed("test_ok"), raised |-> FALSE]

\* test_connection from the return of requests.post on.
test_connection_outcome(response) ==
    LET caught(exc) ==
            [result |-> PyFalse, output |-> Printed("test_failed"),
             raised |-> "Exception" \notin Bases(exc)]
    IN IF response.exc # "" THEN caught(response.exc)
       ELSE IF response.status_code = 200
       THEN [result |-> PyTrue, output |-> Printed("test_ok"), raised |-> FALSE]
       ELSE LET e == handle_api_error(response)
            IN IF e.exc # "" THEN caught(e.exc)
               ELSE [result |-> PyFalse, output |-> e.output, raised |-> FALSE]

\* test_connection up to the point where it blocks in requests.post.
test_connection_send ==
    /\ pc = "idle"
    /\ request' = test_messages(conversation_history)
    /\ pc' = "probing"
    /\ op' = "test_connection"
    /\ UNCHANGED callers
    /\ result' = NONE
    /\ output' = Printed("testing")
    /\ raised' = FALSE
    /\ stream' = NONE
    /\ posts' = 1
    /\ summary' = NoSummary
    /\ UNCHANGED <<conversation_history, max_history, n_appended, recent>>

\* test_connection from the moment requests.post returns or raises.
test_connection_receive(response) ==
    /\ pc = "probing"
    /\ LET o == test_connection_outcome(response)
       IN /\ result' = o.result
          /\ output' = o.output
          /\ raised' = o.raised
    /\ pc' = "idle"
    /\ request' = <<>>
    /\ op' = "test_connection"
    /\ UNCHANGED callers
    /\ UNCHANGED <<conversation_history, max_history, stream, posts, summary,
                   n_appended, recent>>

Next ==
    \/ \E t \in Prompts : set_system_prompt(t)
    \/ \E t \in Texts : add_user_message(t)
    \/ \E t \in Texts : add_assistant_message(t)
    \/ clear_history
    \/ \E t \in Texts : chat_send(t)
    \/ \E r \in Responses : chat_receive(r)
    \/ get_history_summary
    \/ test_connection_send
    \/ \E r \in ProbeResponses : test_connection_receive(r)

Spec == Init /\ [][Next]_vars

(***************************************************************************)
(* Two callers inside add_user_message / add_assistant_message at once.    *)
(* An append is four steps on the shared list: list.append, the read of    *)
(* the system messages, the read of the other messages, and the assignment *)
(* of the recombined list.                                                 *)
(***************************************************************************)
RaceMessage(c) ==
    IF c = 1 THEN ChatMessage("user", TxtA) ELSE ChatMessage("assistant", TxtB)

OldMessage == ChatMessage("user", TxtBlank)

RECURSIVE Repeat(_, _)
Repeat(msg, k) == IF k = 0 THEN <<>> ELSE <<msg>> \o Repeat(msg, k - 1)

\* Histories the client can hold before the two calls, for a limit.
RaceHistories(limit) ==
    {sys \o Repeat(OldMessage, k) :
         sys \in {<<>>, <<ChatMessage("system", TxtA)>>},
         k \in {j \in 0..MaxHistory : limit > 0 => j <= limit}}

RaceInit ==
    /\ max_history \in Limits
    /\ conversation_history \in RaceHistories(max_history)
    /\ threads = [c \in Callers |-> [NoThreads[c] EXCEPT !.pc = "ready",
                                                         !.message = RaceMessage(c)]]
    /\ serialized \in BOOLEAN
    /\ pc = "idle"
    /\ request = <<>>
    /\ op = "init"
    /\ result = NONE
    /\ output = NoOutput
    /\ raised = FALSE
    /\ stream = NONE
    /\ posts = 0
    /\ summary = NoSummary
    /\ repl = NoRepl
    /\ n_appended = 0
    /\ recent = <<>>

Busy(c) == threads[c].pc \in {"appended", "read_system", "read_other"}

\* Callers that take turns start a call only when no other call is running.
MayStart(c) == serialized => \A d \in Callers \ {c} : ~Busy(d)

RaceFrame ==
    UNCHANGED <<max_history, pc, request, op, result, output, raised, stream,
                posts, summary, serialized, repl, n_appended, recent>>

\* self.conversation_history.append(message)
append_message(c) ==
    /\ threads[c].pc = "ready"
    /\ MayStart(c)
    /\ conversation_history' = Append(conversation_history, threads[c].message)
    /\ threads' = [threads EXCEPT ![c].pc = "appended"]
    /\ RaceFrame

\* system_messages = [msg for msg in self.conversation_history if ...]
read_system_messages(c) ==
    /\ threads[c].pc = "appended"
    /\ threads' = [threads EXCEPT
                      ![c].pc = "read_system",
                      ![c].system_messages = SystemMessages(conversation_history)]
    /\ UNCHANGED conversation_history
    /\ RaceFrame

\* other_messages = [msg for msg in self.conversation_history if ...]
read_other_messages(c) ==
    /\ threads[c].pc = "read_system"
    /\ threads' = [threads EXCEPT
                      ![c].pc = "read_other",
                      ![c].other_messages = OtherMessages(conversation_history)]
    /\ UNCHANGED conversation_history
    /\ RaceFrame

\* The slice of other_messages and the assignment of the recombined list.
assign_history(c) ==
    /\ threads[c].pc = "read_other"
    /\ LET system_messages == threads[c].system_messages
           other_messages == threads[c].other_messages
       IN conversation_history' =
              IF Len(other_messages) > max_history
              THEN system_messages \o SliceFrom(other_messages, -max_history)
              ELSE system_messages \o other_messages
    /\ threads' = [threads EXCEPT ![c].pc = "done"]
    /\ RaceFrame

RaceNext ==
    \E c \in Callers :
        \/ append_message(c)
        \/ read_system_messages(c)
        \/ read_other_messages(c)
        \/ assign_history(c)

RaceSpec == RaceInit /\ [][RaceNext]_vars

(***************************************************************************)
(* The command loop DeepSeekCLI.run, from the point where initialize has   *)
(* succeeded.  One action per line read at the prompt.                     *)
(***************************************************************************)
DefaultPrompt == TxtA
PromptTexts == {DefaultPrompt, <<"b">>}
QuitWords == {"quit", "exit", "q"}
EndOfInput == "<EOF>"
OrdinaryLine == "message"

ReplInit ==
    /\ max_history \in Limits
    /\ \E p \in PromptTexts :
           /\ conversation_history = set_system_prompt_history(<<>>, p)
           /\ repl = [running |-> TRUE, loop |-> "prompt", line |-> "",
                      system_prompt |-> p]
    /\ pc = "idle"
    /\ request = <<>>
    /\ op = "test_connection"
    /\ result = PyTrue
    /\ output = Printed("test_ok")
    /\ raised = FALSE
    /\ stream = NONE
    /\ posts = 1
    /\ summary = NoSummary
    /\ threads = NoThreads
    /\ serialized = TRUE
    /\ n_appended = 0
    /\ recent = <<>>

AtPrompt == repl.loop = "prompt" /\ repl.running

ClientUnchanged ==
    UNCHANGED <<conversation_history, max_history, pc, request, op, result,
                output, raised, stream, posts, summary, n_appended, recent>>

OnlyHistoryChanged ==
    UNCHANGED <<max_history, pc, request, raised, stream, threads, serialized,
                n_appended, recent>>

\* The loop after a pass: `while self.running` is tested again.
NextPass(r) == [r EXCEPT !.loop = IF r.running THEN "prompt" ELSE "ended"]

\* input() raises EOFError or KeyboardInterrupt: break.
repl_end_of_input ==
    /\ AtPrompt
    /\ repl' = [repl EXCEPT !.loop = "ended", !.line = EndOfInput]
    /\ ClientUnchanged
    /\ UNCHANGED <<threads, serialized>>

\* An empty line: a warning, then the next pass.
repl_empty_line ==
    /\ AtPrompt
    /\ repl' = NextPass([repl EXCEPT !.line = ""])
    /\ ClientUnchanged
    /\ UNCHANGED <<threads, serialized>>

\* quit, exit, q: handle_command clears self.running.
repl_quit(word) ==
    /\ AtPrompt
    /\ repl' = NextPass([repl EXCEPT !.running = FALSE, !.line = word])
    /\ ClientUnchanged
    /\ UNCHANGED <<threads, serialized>>

\* help: handle_command prints the help.
repl_help ==
    /\ AtPrompt
    /\ repl' = NextPass([repl EXCEPT !.line = "help"])
    /\ ClientUnchanged
    /\ UNCHANGED <<threads, serialized>>

\* clear: clear_history, then set_system_prompt with the manager's prompt.
repl_clear ==
    /\ AtPrompt
    /\ repl' = NextPass([repl EXCEPT !.line = "clear"])
    /\ conversation_history' =
           set_system_prompt_history(clear_history_result(conversation_history),
                                     repl.system_prompt)
    /\ op' = "set_system_prompt"
    /\ result' = NONE
    /\ output' = NoOutput
    /\ posts' = 0
    /\ summary' = NoSummary
    /\ n_appended' = 0
    /\ recent' = <<>>
    /\ UNCHANGED <<max_history, pc, request, raised, stream, threads, serialized>>

\* history: get_history_summary, then the counts are printed.
repl_history ==
    /\ AtPrompt
    /\ repl' = NextPass([repl EXCEPT !.line = "history"])
    /\ summary' = history_summary(conversation_history, max_history)
    /\ op' = "get_history_summary"
    /\ result' = NONE
    /\ output' = NoOutput
    /\ posts' = 0
    /\ UNCHANGED conversation_history
    /\ OnlyHistoryChanged

\* reload: when the prompt file is read again (text is its stripped content,
\* the default prompt if that is empty) the client gets the new prompt.
repl_reload_loaded(text) ==
    /\ AtPrompt
    /\ repl' = NextPass([repl EXCEPT !.line = "reload", !.system_prompt = text])
    /\ conversation_history' = set_system_prompt_history(conversation_history, text)
    /\ op' = "set_system_prompt"
    /\ result' = NONE
    /\ output' = NoOutput
    /\ posts' = 0
    /\ summary' = NoSummary
    /\ OnlyHistoryChanged

\* reload: the file is missing (the manager keeps its prompt) or reading it
\* fails (the manager takes the default prompt); the client is not called.
repl_reload_failed(missing) ==
    /\ AtPrompt
    /\ repl' = NextPass([repl EXCEPT
                            !.line = "reload",
                            !.system_prompt =
                                IF missing THEN repl.system_prompt
                                ELSE DefaultPrompt])
    /\ ClientUnchanged
    /\ UNCHANGED <<threads, serialized>>

\* Any other non-empty line: self.api_client.chat_stream(user_input).
\* DeepSeekClient has no attribute chat_stream: AttributeError is raised
\* before the client does anything, and the except clause around the loop
\* catches it.
repl_message ==
    /\ AtPrompt
    /\ repl' = [repl EXCEPT !.loop = "ended", !.line = OrdinaryLine]
    /\ ClientUnchanged
    /\ UNCHANGED <<threads, serialized>>

ReplNext ==
    \/ repl_end_of_input
    \/ repl_empty_line
    \/ \E word \in QuitWords : repl_quit(word)
    \/ repl_help
    \/ repl_clear
    \/ repl_history
    \/ \E text \in PromptTexts : repl_reload_loaded(text)
    \/ \E missing \in BOOLEAN : repl_reload_failed(missing)
    \/ repl_message

ReplSpec == ReplInit /\ [][ReplNext]_vars

\* A conversation made of chat calls only, with the system prompt set or
\* the history cleared between calls.
ChatNext ==
    \/ set_system_prompt(TxtB)
    \/ clear_history
    \/ \E t \in Texts : chat_send(t)
    \/ \E r \in Responses : chat_receive(r)

\* requests.post is called with a timeout: it returns or raises, so a call
\* that waits for the remote is resumed.
ChatSpec ==
    /\ Init
    /\ [][ChatNext]_vars
    /\ WF_vars(\E r \in Responses : chat_receive(r))

(***************************************************************************)
(* Properties.                                                             *)
(***************************************************************************)
Min(a, b) == IF a < b THEN a ELSE b
LastOf(s, k) == SubSeq(s, Len(s) - k + 1, Len(s))
Stored == OtherMessages(conversation_history)
ChatReturned == op = "chat" /\ pc = "idle"
ChatReturns == pc = "awaiting" /\ pc' = "idle"

\* C1: with a positive max_history, after every call the number of messages
\* whose role is not 'system' is at most max_history.
C1_RetentionBound ==
    max_history > 0 => Len(Stored) <= max_history

\* C1 witness: more messages were appended than the limit allows and the
\* history holds exactly max_history of them.
C1_Witness ==
    /\ max_history > 0
    /\ n_appended > max_history + 1
    /\ Len(Stored) = max_history
    /\ op \in {"add_user_message", "add_assistant_message"}

\* C2: with a positive max_history, the non-system part of the history is
\* exactly the last min(n, max_history) messages appended since the last
\* clear_history, in their append order.
C2_LastAppendedInOrder ==
    max_history > 0 =>
        Stored = LastOf(recent, Min(n_appended, max_history))

\* C2 witness: limit 2, five appends with alternating roles ending
\* assistant, user: the history ends as those last two messages.
C2_Witness ==
    /\ max_history = 2
    /\ n_appended = 5
    /\ op = "add_user_message"
    /\ Stored = <<ChatMessage("assistant", TxtB), ChatMessage("user", TxtBlank)>>

\* C3: the history holds at most one message with role 'system', and if it
\* holds one, that message is at index 0 (the first element).
C3_OneSystemFirst ==
    /\ Len(SystemMessages(conversation_history)) <= 1
    /\ SystemMessages(conversation_history) # <<>> =>
           conversation_history[1].role = "system"

\* C3 witness: a second set_system_prompt has replaced an earlier system
\* message while other messages were stored behind it.
C3_Witness ==
    /\ op = "set_system_prompt"
    /\ Len(conversation_history) > 1
    /\ conversation_history[1] = ChatMessage("system", <<"b">>)
    /\ max_history > 0
    /\ n_appended > max_history

\* C4: every step that is not a set_system_prompt call leaves the system
\* message (its presence and its content) as it was.
C4_SystemPinned ==
    [][op' # "set_system_prompt" =>
           SystemMessages(conversation_history') =
               SystemMessages(conversation_history)]_vars

\* C4 witness: a system message is present after a failed chat that
\* followed evictions.
C4_Witness ==
    /\ ChatReturned
    /\ result = NONE
    /\ max_history > 0
    /\ n_appended > max_history
    /\ SystemMessages(conversation_history) = <<ChatMessage("system", TxtA)>>

\* C8: chat never lets an exception escape to its caller, whatever the
\* transport does and whatever response arrives.
C8_ChatNeverRaises ==
    raised = FALSE

\* C8 witness: chat returned after its catch-all clause caught an exception
\* raised while reading the response (KeyError, TypeError, AttributeError).
C8_Witness ==
    /\ ChatReturned
    /\ output.kind = "unknown_error"
    /\ raised = FALSE

\* What the remote did, in the terms of the error taxonomy: "none" for a
\* well-formed success response.
FailureKind(r) ==
    CASE r.exc \in {"ReadTimeout", "ConnectTimeout"} -> "timeout"
      [] r.exc = "ConnectionError" -> "connection_failed"
      [] r.exc = "TooManyRedirects" -> "transport_error"
      [] r.exc = "" /\ r.status_code # 200 -> "api_error"
      [] r.exc = "" /\ r.status_code = 200 /\ r.body.json = "object"
             /\ r.body.choices = "content" /\ r.body.content # NONE
             /\ r.body.usage # "number" -> "none"
      [] OTHER -> "malformed_response"

\* HTTP 200 whose choices array is non-empty and whose first choice carries
\* message.content.
HasReply(r) ==
    /\ r.exc = ""
    /\ r.status_code = 200
    /\ r.body.json = "object"
    /\ r.body.choices = "content"

\* C5: when chat ends in failure with a positive max_history, the user
\* message appended at the start of the call is still the last message of
\* the history when chat returns, and the request of the next chat call
\* holds it right before the new user message.
C5_FailedUserTurnKept ==
    [][/\ (ChatReturns /\ result' = NONE /\ max_history > 0) =>
              conversation_history'[Len(conversation_history')] =
                  request[Len(request)]
       /\ (ChatReturned /\ result = NONE /\ max_history > 0 /\ pc' = "awaiting") =>
              /\ Len(request') >= 2
              /\ request'[Len(request') - 1] =
                     to_dict(conversation_history[Len(conversation_history)])]_vars

\* C6: whenever chat returns None, the history after the call equals the
\* history after the initial user append and trim (no assistant message
\* was appended during the call).
C6_NoAssistantOnFailure ==
    [][(ChatReturns /\ result' = NONE) =>
           conversation_history' = conversation_history]_vars

\* C7: a chat call that receives HTTP 200 with a non-empty choices array
\* (whose first choice carries message.content) appends exactly one
\* assistant message with exactly that content to the history as it stood
\* after the user append, trims, and returns that same content.
C7_SuccessAppendsAndReturnsReply ==
    [][\A r \in Responses :
           (ChatReturns /\ HasReply(r) /\ chat_receive(r)) =>
               /\ conversation_history' =
                      trim_history(
                          Append(conversation_history,
                                 ChatMessage("assistant", r.body.content)),
                          max_history)
               /\ n_appended' = n_appended + 1
               /\ result' = r.body.content]_vars

\* C9 as stated: chat hands back pairwise different results for a timeout,
\* a connection failure, another transport failure, a malformed HTTP 200
\* response and an HTTP non-200 error.
C9_KindsDistinguishable ==
    pc = "awaiting" =>
        \A r1, r2 \in Responses :
            (/\ FailureKind(r1) # "none"
             /\ FailureKind(r2) # "none"
             /\ FailureKind(r1) # FailureKind(r2)) =>
                chat_outcome(conversation_history, max_history, r1).result #
                    chat_outcome(conversation_history, max_history, r2).result

\* C9 amended: for every failure kind (timeout, connection failure, other
\* transport failure, malformed HTTP 200 response, HTTP non-200) chat hands
\* back None and raises nothing, so the returned value tells success from
\* failure but not one failure kind from another.
C9_EveryFailureReturnsNone ==
    pc = "awaiting" =>
        \A r \in Responses :
            FailureKind(r) # "none" =>
                LET o == chat_outcome(conversation_history, max_history, r)
                IN o.result = NONE /\ ~o.raised

\* C9 witness: chat returned None after the Timeout clause ran.
C9_Witness ==
    /\ ChatReturned
    /\ result = NONE
    /\ output.kind = "timeout"

\* C10: when the remote answers HTTP 200 with a body that is not JSON, the
\* exception of response.json() reaches the json.JSONDecodeError clause
\* (response parse failure), not the RequestException clause.
C10_NotJsonReachesDecodeHandler ==
    [][\A r \in Responses :
           (/\ ChatReturns
            /\ r.exc = "" /\ r.status_code = 200 /\ r.body.json = "invalid"
            /\ chat_receive(r)) =>
               output'.kind = "parse_failed"]_vars

\* The message a non-200 response carries: error.message of a JSON object
\* body, the raw body text when the body is not JSON.
CarriedMessage(r) ==
    IF r.body.json = "invalid" THEN r.body.text
    ELSE IF r.body.error = "object" /\ r.body.message # NONE THEN r.body.message
    ELSE UnknownErrorText

IsApiError(r) == r.exc = "" /\ r.status_code # 200

\* C11 as stated: for every HTTP non-200 response, what chat reports keeps
\* both the status code and the message of the body (error.message, or the
\* raw text of a body that is not JSON).
C11_ApiErrorKeepsCodeAndMessage ==
    [][\A r \in Responses :
           (ChatReturns /\ IsApiError(r) /\ chat_receive(r)) =>
               /\ output'.code = r.status_code
               /\ output'.text = CarriedMessage(r)]_vars

\* C11 amended: for every HTTP non-200 response chat returns None and
\* prints one line.  A body that is not JSON: the line carries the status
\* code and the raw text.  A JSON object body whose error member is absent
\* or an object: status 401, 429 and 500 print a fixed line of their own
\* without the code number and without error.message; status 400 prints
\* error.message without the code; every other status prints the code and
\* error.message.  Any other JSON body ends in the catch-all clause, whose
\* line carries neither.
C11_ApiErrorReport ==
    pc = "awaiting" =>
        \A r \in Responses :
            IsApiError(r) =>
                LET o == chat_outcome(conversation_history, max_history, r)
                    code == r.status_code
                    plain == r.body.json = "object" /\ r.body.error # "string"
                IN /\ o.result = NONE
                   /\ o.history = conversation_history
                   /\ r.body.json = "invalid" =>
                          o.output = [kind |-> "http_error", code |-> code,
                                      text |-> CarriedMessage(r)]
                   /\ (plain /\ code = 401) => o.output = Printed("invalid_key")
                   /\ (plain /\ code = 429) => o.output = Printed("rate_limited")
                   /\ (plain /\ code = 500) => o.output = Printed("server_error")
                   /\ (plain /\ code = 400) =>
                          o.output = [kind |-> "bad_request", code |-> 0,
                                      text |-> CarriedMessage(r)]
                   /\ (plain /\ code \notin {400, 401, 429, 500}) =>
                          o.output = [kind |-> "api_error", code |-> code,
                                      text |-> CarriedMessage(r)]
                   /\ (r.body.json # "invalid" /\ ~plain) =>
                          o.output = Printed("unknown_error")

\* C11 witness: chat returned None after status 401 with a JSON error
\* body and printed the fixed invalid-key line.
C11_Witness ==
    /\ ChatReturned
    /\ result = NONE
    /\ output = Printed("invalid_key")

\* C12: a chat call makes at most one call of requests.post, whatever the
\* outcome (no except clause retries), and once chat has returned no
\* request is in flight.
C12_AtMostOneRequest ==
    /\ op = "chat" => posts <= 1
    /\ ChatReturned => (request = <<>> /\ stream = NONE)
    /\ pc = "awaiting" =>
           \A r \in Responses :
               posts + chat_outcome(conversation_history, max_history, r).posts <= 1

\* C12 witness: chat returned through the Timeout clause having posted once.
C12_Witness ==
    /\ ChatReturned
    /\ output.kind = "timeout"
    /\ posts = 1
    /\ request = <<>>

\* C13: while chat waits for the remote, the request carries stream = False
\* and a messages list that is the stored history, entry by entry, as it
\* stands after the user append and trim: the system message first when
\* there is one, the user message just supplied last, and one entry per
\* retained message (N + 1 with a system message, N without).
C13_RequestIsHistorySnapshot ==
    pc = "awaiting" =>
        /\ stream = PyFalse
        /\ Len(request) = Len(conversation_history)
        /\ \A i \in 1..Len(request) :
               /\ request[i].role = conversation_history[i].role
               /\ request[i].content = conversation_history[i].content
        /\ Len(request) =
               Len(SystemMessages(conversation_history)) + Len(Stored)
        /\ SystemMessages(conversation_history) # <<>> =>
               /\ request[1].role = "system"
               /\ \A i \in 2..Len(request) : request[i].role # "system"
        /\ request[Len(request)].role = "user"
        /\ recent # <<>> /\ request[Len(request)] = to_dict(recent[Len(recent)])

\* C13 witness: a request in flight holding the system message, a retained
\* turn and the new user message, with the history at its limit.
C13_Witness ==
    /\ pc = "awaiting"
    /\ max_history = 2
    /\ Len(request) = 3
    /\ request[1].role = "system"
    /\ request[2].role = "assistant"
    /\ request[3] = [role |-> "user", content |-> TxtB]
    /\ n_appended > 2

\* C14: test_connection leaves conversation_history and max_history as they
\* were on every outcome of its probe (HTTP 200, another status, timeout or
\* another exception); the probe request holds the fixed 'Hello' message and
\* nothing of the stored history; and it returns True only for status 200.
C14_TestConnectionFrame ==
    [][(pc' = "probing" \/ pc = "probing") =>
           /\ conversation_history' = conversation_history
           /\ max_history' = max_history
           /\ pc' = "probing" =>
                  request' = <<[role |-> "user", content |-> Hello]>>
           /\ \A r \in ProbeResponses :
                  test_connection_receive(r) =>
                      /\ result' \in {PyTrue, PyFalse}
                      /\ result' = PyTrue => (r.exc = "" /\ r.status_code = 200)
                      /\ ~raised']_vars

\* C14 witness: test_connection returned False after status 401 while the
\* history held a system message and two other messages.
C14_Witness ==
    /\ op = "test_connection"
    /\ pc = "idle"
    /\ result = PyFalse
    /\ output = Printed("invalid_key")
    /\ Len(conversation_history) = 3
    /\ conversation_history[1].role = "system"

\* C15: clear_history, called on any reachable history of any length, leaves
\* exactly the system message if there was one (the same message, at
\* index 0) and nothing else: every user and assistant message is gone.
C15_ClearKeepsOnlySystem ==
    pc = "idle" =>
        LET h == conversation_history
            after == clear_history_result(h)
            had == \E i \in 1..Len(h) : h[i].role = "system"
        IN /\ \A i \in 1..Len(after) : after[i].role = "system"
           /\ had => /\ Len(after) = 1
                     /\ h[1].role = "system"
                     /\ after[1] = h[1]
           /\ ~had => after = <<>>
           /\ op = "clear_history" => after = h

\* C15 witness: clear_history has left the system message alone in the
\* history.
C15_Witness ==
    /\ op = "clear_history"
    /\ conversation_history = <<ChatMessage("system", <<"b">>)>>

\* Text helpers of the claims about trimming, independent of strip.
Blank(t) == \A i \in 1..Len(t) : t[i] = " "
IsTrimOf(c, t) ==
    \E i, j \in 0..Len(t) :
        /\ i + j <= Len(t)
        /\ c = SubSeq(t, i + 1, Len(t) - j)
        /\ \A k \in 1..i : t[k] = " "
        /\ \A k \in (Len(t) - j + 1)..Len(t) : t[k] = " "
        /\ c # <<>> => (c[1] # " " /\ c[Len(c)] # " ")
NoSystemIn(s) == \A i \in 1..Len(s) : s[i].role # "system"

\* C16: set_system_prompt(t) with t not blank replaces rather than adds:
\* called on any reachable history, also one that already has a system
\* message, it leaves exactly one system message, at index 0, whose content
\* is t without its surrounding whitespace, followed by the other messages
\* as they were; so two calls in a row leave only the latest text.
C16_SetSystemPromptReplaces ==
    pc = "idle" =>
        \A t \in Prompts :
            ~Blank(t) =>
                LET h == set_system_prompt_history(conversation_history, t)
                IN /\ Len(h) >= 1
                   /\ h[1].role = "system"
                   /\ IsTrimOf(h[1].content, t)
                   /\ NoSystemIn(Tail(h))
                   /\ Tail(h) = OtherMessages(conversation_history)
                   /\ \A u \in Prompts :
                          ~Blank(u) =>
                              set_system_prompt_history(h, u) =
                                  set_system_prompt_history(conversation_history, u)

\* C16 witness: set_system_prompt has put the trimmed text first in a
\* history that holds two other messages.
C16_Witness ==
    /\ op = "set_system_prompt"
    /\ Len(conversation_history) = 3
    /\ conversation_history[1] = ChatMessage("system", <<"b">>)
    /\ NoSystemIn(Tail(conversation_history))

\* C17: set_system_prompt with an empty or whitespace-only text, called on
\* any reachable history, removes the system message and inserts none, and
\* the request of a chat call made after it has no entry with role 'system'.
C17_BlankPromptRemovesSystem ==
    /\ pc = "idle" =>
           \A t \in Prompts :
               Blank(t) =>
                   LET h == set_system_prompt_history(conversation_history, t)
                   IN /\ NoSystemIn(h)
                      /\ h = OtherMessages(conversation_history)
    /\ (pc = "awaiting" /\ NoSystemIn(conversation_history)) =>
           NoSystemIn(request)

\* C17 witness: set_system_prompt has left a history of two messages
\* without a system message.
C17_Witness ==
    /\ op = "set_system_prompt"
    /\ Len(conversation_history) = 2
    /\ NoSystemIn(conversation_history)

\* C18 as stated: after add_user_message(text) or add_assistant_message(text)
\* the content of the last message of the history is text without its
\* surrounding whitespace.
C18_AppendStoresTrimmed ==
    (op \in {"add_user_message", "add_assistant_message"}) =>
        /\ conversation_history # <<>> /\ recent # <<>>
        /\ IsTrimOf(conversation_history[Len(conversation_history)].content,
                    recent[Len(recent)].content)

\* C18 amended: add_user_message(text) and add_assistant_message(text),
\* called on any reachable history, leave as last message of the history a
\* message of the given role whose content is text exactly as given,
\* surrounding whitespace included.
C18_AppendStoresTextAsGiven ==
    /\ pc = "idle" =>
           \A t \in Texts, role \in {"user", "assistant"} :
               LET h == add_message_history(conversation_history, role, t,
                                            max_history)
               IN /\ h # <<>>
                  /\ h[Len(h)].role = role
                  /\ h[Len(h)].content = t
    /\ (op \in {"add_user_message", "add_assistant_message"}) =>
           /\ conversation_history # <<>> /\ recent # <<>>
           /\ conversation_history[Len(conversation_history)] = recent[Len(recent)]

\* C18 witness: add_assistant_message has stored a text with its
\* surrounding spaces.
C18_Witness ==
    /\ op = "add_assistant_message"
    /\ conversation_history # <<>>
    /\ conversation_history[Len(conversation_history)] =
           ChatMessage("assistant", TxtB)

\* C19 as stated: chat called with an input that is empty after trimming
\* fails fast, so no request is ever in flight whose newest message is
\* such an input.
C19_BlankInputFailsFast ==
    pc = "awaiting" => ~Blank(request[Len(request)].content)

\* C19 amended: chat does not check its input: called with an input that is
\* empty after trimming it appends the input unchanged as a user message
\* and issues one request whose last message is that input, as for any
\* other input; history and request are determined by the state and the
\* input.
C19_BlankInputIsSent ==
    [][(pc = "idle" /\ op' = "chat") =>
           /\ pc' = "awaiting"
           /\ posts' = 1
           /\ \A t \in Texts :
                  (Blank(t) /\ chat_send(t)) =>
                      /\ conversation_history' =
                             trim_history(
                                 Append(conversation_history,
                                        ChatMessage("user", t)), max_history)
                      /\ request'[Len(request')] =
                             [role |-> "user", content |-> t]
                      /\ Len(request') = Len(conversation_history')]_vars

\* C19 witness: a request is in flight whose last message is the blank
\* input of the chat call.
C19_Witness ==
    /\ pc = "awaiting"
    /\ posts = 1
    /\ request[Len(request)] = [role |-> "user", content |-> TxtBlank]

\* C20: get_history_summary is read-only and consistent in every reachable
\* state: it leaves conversation_history and max_history unchanged, reports
\* max_history as the configured limit, system_messages <= 1,
\* user_messages + assistant_messages <= max_history when max_history > 0,
\* and total_messages = system_messages + user_messages +
\* assistant_messages, the length of the history.
C20_SummaryReadOnlyConsistent ==
    [][op' = "get_history_summary" =>
           /\ conversation_history' = conversation_history
           /\ max_history' = max_history
           /\ summary'.given
           /\ summary'.max_history = max_history
           /\ summary'.system_messages <= 1
           /\ max_history > 0 =>
                  summary'.user_messages + summary'.assistant_messages
                      <= max_history
           /\ summary'.total_messages =
                  summary'.system_messages + summary'.user_messages
                      + summary'.assistant_messages
           /\ summary'.total_messages = Len(conversation_history)]_vars

\* C20 witness: get_history_summary has reported a full history of one
\* system, one user and one assistant message under the limit 2.
C20_Witness ==
    /\ op = "get_history_summary"
    /\ summary = [total_messages |-> 3, system_messages |-> 1,
                  user_messages |-> 1, assistant_messages |-> 1,
                  max_history |-> 2, given |-> TRUE]
    /\ n_appended > 2

\* C21: a chat call goes Idle -> AwaitingResponse -> Succeeded or Failed:
\* it starts waiting only from idle and with the user message appended and
\* last in the request, nothing changes while it waits, it stops waiting
\* once, returning to the caller without an exception, with no request
\* pending and with the history either as it was or with one whole
\* assistant message appended; and, the transport answering or timing out,
\* every call that waits returns.
C21_ChatStateMachine ==
    /\ [][/\ (pc # "awaiting" /\ pc' = "awaiting") =>
                 /\ pc = "idle"
                 /\ op' = "chat"
                 /\ posts' = 1
                 /\ n_appended' = n_appended + 1
                 /\ conversation_history'[Len(conversation_history')].role = "user"
                 /\ request'[Len(request')] =
                        to_dict(conversation_history'[Len(conversation_history')])
          /\ (pc = "awaiting" /\ pc' = "awaiting") => UNCHANGED vars
          /\ (pc = "awaiting" /\ pc' # "awaiting") =>
                 /\ pc' = "idle"
                 /\ op' = "chat"
                 /\ request' = <<>>
                 /\ posts' = 1
                 /\ ~raised'
                 /\ \/ conversation_history' = conversation_history
                    \/ \E c \in ReplyContents :
                           conversation_history' =
                               trim_history(
                                   Append(conversation_history,
                                          ChatMessage("assistant", c)),
                                   max_history)]_vars
    /\ (pc = "awaiting" ~> ChatReturned)

\* C21 witness: a chat call has returned its reply, the assistant message
\* being the last of the history.
C21_Witness ==
    /\ ChatReturned
    /\ result = TxtB
    /\ output = Printed("response_info")
    /\ conversation_history[Len(conversation_history)] =
           ChatMessage("assistant", TxtB)

\* C22: set_system_prompt and clear_history do no retention trimming and
\* never add to the non-system messages: set_system_prompt leaves the
\* sequence of non-system messages (contents and order) and max_history
\* exactly as they were, and clear_history leaves max_history and the
\* system message as they were and no non-system message.
C22_PromptAndClearFrame ==
    [][/\ op' = "set_system_prompt" =>
              /\ OtherMessages(conversation_history') =
                     OtherMessages(conversation_history)
              /\ max_history' = max_history
              /\ n_appended' = n_appended
       /\ op' = "clear_history" =>
              /\ Len(OtherMessages(conversation_history')) <=
                     Len(OtherMessages(conversation_history))
              /\ SystemMessages(conversation_history') =
                     SystemMessages(conversation_history)
              /\ max_history' = max_history]_vars

\* C22 witness: set_system_prompt has run on a history that is at its
\* limit of two messages after evictions, and both are still there.
C22_Witness ==
    /\ op = "set_system_prompt"
    /\ max_history = 2
    /\ n_appended > 2
    /\ Len(Stored) = 2
    /\ Stored = recent

\* Helpers of the claims about two callers.
BothDone == \A c \in Callers : threads[c].pc = "done"
NewestOf(s, k) == SubSeq(s, Len(s) - Min(k, Len(s)) + 1, Len(s))
StoreRight ==
    /\ Len(Stored) <= max_history
    /\ LET k == Min(2, max_history)
       IN NewestOf(Stored, k) \in
              {NewestOf(<<RaceMessage(1), RaceMessage(2)>>, k),
               NewestOf(<<RaceMessage(2), RaceMessage(1)>>, k)}

\* C23, second half as stated: when the two appends are serialized, no
\* state is reachable after both have completed in which the store is
\* wrong (more non-system messages than max_history, or an appended
\* message missing that should be among the last max_history).
C23_SerializedStoreRight ==
    (serialized /\ BothDone) => StoreRight

\* C23, second half for a positive max_history: serialized appends leave
\* the store right.
C23_SerializedStoreRightPositiveLimit ==
    (serialized /\ BothDone /\ max_history > 0) => StoreRight

\* C23, first half: no interleaving of the two appends without mutual
\* exclusion leaves the store wrong under a positive max_history (the
\* claim says that one does).
C23_NoLostAppend ==
    (~serialized /\ BothDone /\ max_history > 0) => StoreRight

\* C24: the retention bound holds for every non-negative max_history, the
\* boundary value 0 included: after every add_user_message /
\* add_assistant_message call the number of non-system messages is at most
\* max_history (so it is 0 when max_history is 0).
C24_RetentionBoundAtZero ==
    (op \in {"add_user_message", "add_assistant_message"}) =>
        Len(Stored) <= max_history

\* C25: in the loop of DeepSeekCLI.run every non-empty line that is not a
\* command is handed to the client as a chat message and the loop goes on
\* to the next prompt; the loop ends only on quit, exit, q or on end of
\* input or an interrupt at the prompt, never on an ordinary message.
C25_LoopEndsOnlyOnQuit ==
    /\ repl.loop = "ended" => repl.line \in QuitWords \cup {EndOfInput}
    /\ (repl.loop # "off" /\ repl.line = OrdinaryLine) =>
           (repl.loop = "prompt" /\ op = "chat")

====
